---- MODULE Spec2Model ----
(***************************************************************************)
(* AquaTrack: the statistics service (services/statsService) and the       *)
(* period-local clustering routine of App.tsx.                             *)
(*                                                                         *)
(* Numbers.  A JavaScript number is modelled as an exact fraction <<n, d>> *)
(* in lowest terms with d >= 0.  d = 0 holds the three IEEE specials:      *)
(* <<1, 0>> is Infinity, <<-1, 0>> is -Infinity and <<0, 0>> is NaN.       *)
(* Rounding is not modelled: every finite result is exact.                 *)
(* Arrays are sequences; the code's 0-based index i is At(seq, i).         *)
(***************************************************************************)
EXTENDS Integers, Sequences, FiniteSets, TLC

VARIABLES
    data,            \* statsService: the numeric sequence passed to the call
    dates,           \* findPettittChangePoint: the parallel date labels
    lambda,          \* calculateEWMA: the smoothing factor passed (Undefined: omitted)
    samples,         \* clusterDataPerPeriod: the samples of the period
    clusterCount,    \* App state: useState(5)
    clusteringAlgo,  \* App state: useState('simple')
    called,          \* the function that has run ("none": nothing yet)
    ret,             \* its return value
    locals,          \* clusterDataPerPeriod: its locals when it returned
    first,           \* repeated runs: the inputs and the output of the first run
    timePoints,      \* App state: useState<TimePoint[]>([])
    isUploading,     \* App state: useState(false)
    processedTimePoints, \* App: the useMemo over timePoints and the settings
    volatilityRanking,   \* App: the useMemo over processedTimePoints
    pointHistories,      \* volatilityRanking: its local when it returned
    analysis,        \* App state: useState<AnalysisResult | null>(null)
    isAnalyzing,     \* App state: useState(false)
    analyzeCall,     \* runAnalysis: the position of its call of analyzeWaterData
    uploadCall       \* handleFileUpload: the position of its call, file by file

\* The state of the application beyond the two clustering settings.
analysisVars == <<analysis, isAnalyzing, analyzeCall>>

appVars == <<timePoints, isUploading, processedTimePoints, volatilityRanking,
             pointHistories, analysisVars, uploadCall>>

vars == <<data, dates, lambda, samples, clusterCount, clusteringAlgo, called, ret, locals,
          first, appVars>>

\* The state of an application that has not been rendered.
NoApp ==
    /\ timePoints = <<>>
    /\ isUploading = FALSE
    /\ processedTimePoints = <<>>
    /\ volatilityRanking = <<>>
    /\ pointHistories = <<>>
    /\ analysis = [type |-> "null"]
    /\ isAnalyzing = FALSE
    /\ analyzeCall = [pc |-> "idle"]
    /\ uploadCall = [pc |-> "idle", outcome |-> "none"]

(***************************************************************************)
(* Bounds of the model.                                                    *)
(***************************************************************************)
MaxLen == 4
MaxVal == 1
MaxSamples == 4
MaxRerunSamples == 3

(***************************************************************************)
(* JavaScript numbers.                                                     *)
(***************************************************************************)
Undefined == <<>>

Abs(x) == IF x < 0 THEN 0 - x ELSE x

Sgn(x) == IF x > 0 THEN 1 ELSE IF x < 0 THEN 0 - 1 ELSE 0

RECURSIVE Gcd(_, _)
Gcd(a, b) == IF b = 0 THEN a ELSE Gcd(b, a % b)

\* n/d in lowest terms; a zero denominator gives Infinity, -Infinity or NaN.
Rat(n, d) ==
    IF d = 0 THEN <<Sgn(n), 0>>
    ELSE LET g == Gcd(Abs(n), Abs(d))
         IN  <<Sgn(d) * (n \div g), Sgn(d) * (d \div g)>>

Num(n) == <<n, 1>>

Zero == <<0, 1>>

One == <<1, 1>>

Infinity == <<1, 0>>

NaN == <<0, 0>>

IsNaN(p) == p = NaN

IsFinite(p) == p[2] # 0

\* p + q
Add(p, q) ==
    IF IsNaN(p) \/ IsNaN(q) THEN NaN
    ELSE IF ~IsFinite(p) /\ ~IsFinite(q) THEN (IF p = q THEN p ELSE NaN)
    ELSE IF ~IsFinite(p) THEN p
    ELSE IF ~IsFinite(q) THEN q
    ELSE Rat(p[1] * q[2] + q[1] * p[2], p[2] * q[2])

Neg(p) == <<0 - p[1], p[2]>>

\* p - q
Sub(p, q) == Add(p, Neg(q))

\* p * q  (0 * Infinity is NaN)
Mul(p, q) ==
    IF IsNaN(p) \/ IsNaN(q) THEN NaN
    ELSE Rat(p[1] * q[1], p[2] * q[2])

\* 1 / q  (1 / 0 is Infinity, 1 / Infinity is 0)
Recip(q) ==
    IF IsNaN(q) THEN NaN
    ELSE IF q[1] = 0 THEN Infinity
    ELSE IF ~IsFinite(q) THEN Zero
    ELSE <<Sgn(q[1]) * q[2], Abs(q[1])>>

\* p / q  (x / 0 is +-Infinity, 0 / 0 and Infinity / Infinity are NaN)
Div(p, q) == Mul(p, Recip(q))

\* p < q  (false when either is NaN)
Lt(p, q) ==
    IF IsNaN(p) \/ IsNaN(q) THEN FALSE
    ELSE IF ~IsFinite(p) /\ ~IsFinite(q) THEN p[1] < q[1]
    ELSE IF ~IsFinite(p) THEN p[1] < 0
    ELSE IF ~IsFinite(q) THEN q[1] > 0
    ELSE p[1] * q[2] < q[1] * p[2]

\* p > q
Gt(p, q) == Lt(q, p)

\* Math.abs
MathAbs(p) == <<Abs(p[1]), p[2]>>

\* Math.max(a, b): NaN when either is NaN
MathMax(a, b) ==
    IF IsNaN(a) \/ IsNaN(b) THEN NaN
    ELSE IF Lt(a, b) THEN b ELSE a

\* The code's 0-based array read.
At(seq, i) == seq[i + 1]

\* array.reduce((a, b) => a + b, 0)
RECURSIVE ReduceSum(_, _, _)
ReduceSum(arr, i, acc) ==
    IF i >= Len(arr) THEN acc
    ELSE ReduceSum(arr, i + 1, Add(acc, At(arr, i)))

(***************************************************************************)
(* statsService: calculateMannKendall                                      *)
(***************************************************************************)
Increasing == "Increasing"

Decreasing == "Decreasing"

Stable == "Stable"

\* Mutant: only adjacent pairs (j = i + 1) are compared.
RECURSIVE MannKendallLoop_AdjacentOnly(_, _, _, _)
MannKendallLoop_AdjacentOnly(d, i, j, s) ==
    LET n == Len(d)
    IN  IF ~(i < n - 1) THEN s
        ELSE IF ~(j < i + 2) THEN MannKendallLoop_AdjacentOnly(d, i + 1, i + 2, s)
        ELSE LET s1 == IF Gt(At(d, j), At(d, i)) THEN s + 1 ELSE s
                 s2 == IF Lt(At(d, j), At(d, i)) THEN s1 - 1 ELSE s1
             IN  MannKendallLoop_AdjacentOnly(d, i, j + 1, s2)

\* The body of the two nested loops, one (i, j) pair at a time.
RECURSIVE MannKendallLoop(_, _, _, _)
MannKendallLoop(d, i, j, s) ==
    LET n == Len(d)
    IN  IF ~(i < n - 1) THEN s
        ELSE IF ~(j < n) THEN MannKendallLoop(d, i + 1, i + 2, s)
        ELSE LET s1 == IF Gt(At(d, j), At(d, i)) THEN s + 1 ELSE s
                 s2 == IF Lt(At(d, j), At(d, i)) THEN s1 - 1 ELSE s1
             IN  MannKendallLoop(d, i, j + 1, s2)

\* Mutant: a trend needs more than one pair in excess.
calculateMannKendall_ExcessOfTwo(d) ==
    LET s == MannKendallLoop(d, 0, 1, 0)
    IN  IF s > 1 THEN Increasing
        ELSE IF s < 0 - 1 THEN Decreasing
        ELSE Stable

calculateMannKendall(d) ==
    LET s == MannKendallLoop(d, 0, 1, 0)
    IN  IF s > 0 THEN Increasing
        ELSE IF s < 0 THEN Decreasing
        ELSE Stable

(***************************************************************************)
(* statsService: findPettittChangePoint                                    *)
(***************************************************************************)
Null == "null"

\* The two inner loops: u for the split t.
RECURSIVE PettittU(_, _, _, _, _)
PettittU(d, t, i, j, u) ==
    IF ~(i < t) THEN u
    ELSE IF ~(j < Len(d)) THEN PettittU(d, t, i + 1, t, u)
    ELSE LET diff == Sub(At(d, i), At(d, j))
         IN  PettittU(d, t, i, j + 1,
                      u + (IF Gt(diff, Zero) THEN 1
                           ELSE IF Lt(diff, Zero) THEN 0 - 1 ELSE 0))

\* Mutant: Math.abs(u) >= maxU, so a split is taken even when every u is 0.
RECURSIVE PettittLoop_GreaterOrEqual(_, _, _, _)
PettittLoop_GreaterOrEqual(d, t, maxU, changePointIdx) ==
    IF ~(t < Len(d)) THEN changePointIdx
    ELSE LET u == PettittU(d, t, 0, t, 0)
         IN  IF Abs(u) >= maxU
             THEN PettittLoop_GreaterOrEqual(d, t + 1, Abs(u), t)
             ELSE PettittLoop_GreaterOrEqual(d, t + 1, maxU, changePointIdx)

\* Mutant: u compared without Math.abs.
RECURSIVE PettittLoop_NoAbs(_, _, _, _)
PettittLoop_NoAbs(d, t, maxU, changePointIdx) ==
    IF ~(t < Len(d)) THEN changePointIdx
    ELSE LET u == PettittU(d, t, 0, t, 0)
         IN  IF u > maxU
             THEN PettittLoop_NoAbs(d, t + 1, u, t)
             ELSE PettittLoop_NoAbs(d, t + 1, maxU, changePointIdx)

\* The outer loop: the split with the largest |u| so far.
RECURSIVE PettittLoop(_, _, _, _)
PettittLoop(d, t, maxU, changePointIdx) ==
    IF ~(t < Len(d)) THEN changePointIdx
    ELSE LET u == PettittU(d, t, 0, t, 0)
         IN  IF Abs(u) > maxU
             THEN PettittLoop(d, t + 1, Abs(u), t)
             ELSE PettittLoop(d, t + 1, maxU, changePointIdx)

\* Mutant: the length guard is n < 3.
findPettittChangePoint_MinThree(d, ds) ==
    IF Len(d) < 3 THEN Null
    ELSE LET changePointIdx == PettittLoop(d, 1, 0, 0 - 1)
         IN  IF changePointIdx # 0 - 1 THEN At(ds, changePointIdx) ELSE Null

findPettittChangePoint(d, ds) ==
    IF Len(d) < 4 THEN Null
    ELSE LET changePointIdx == PettittLoop(d, 1, 0, 0 - 1)
         IN  IF changePointIdx # 0 - 1 THEN At(ds, changePointIdx) ELSE Null

(***************************************************************************)
(* Math.sqrt.  The square root of a fraction is k * sqrt(r) with r square- *)
(* free; a number a + k * sqrt(r) is the record [a, k, r], in normal form  *)
(* (k = 0 exactly when r = 1), so that equal numbers are equal records.    *)
(***************************************************************************)
\* The largest s with s * s <= m, by bisection between lo and hi.
RECURSIVE IntSqrt(_, _, _)
IntSqrt(m, lo, hi) ==
    IF hi - lo <= 1 THEN lo
    ELSE LET mid == (lo + hi) \div 2
         IN  IF mid * mid <= m THEN IntSqrt(m, mid, hi) ELSE IntSqrt(m, lo, mid)

\* The least number whose square is not a 32-bit integer.
SqrtLimit == 46341

\* The largest s with s * s dividing m (m > 0).
SquarePart(m) ==
    LET top == IF m < SqrtLimit THEN m + 1 ELSE SqrtLimit
        squares == {s \in 1..IntSqrt(m, 1, top) : m % (s * s) = 0}
    IN  CHOOSE s \in squares : \A t \in squares : t <= s

Surd(a, k, r) ==
    IF ~IsFinite(a) \/ ~IsFinite(k) THEN [a |-> Add(a, k), k |-> Zero, r |-> 1]
    ELSE IF r = 1 \/ k = Zero THEN [a |-> Add(a, k), k |-> Zero, r |-> 1]
    ELSE [a |-> a, k |-> k, r |-> r]

SurdOf(q) == Surd(q, Zero, 1)

MathSqrt(q) ==
    IF IsNaN(q) \/ Lt(q, Zero) THEN SurdOf(NaN)
    ELSE IF ~IsFinite(q) THEN SurdOf(Infinity)
    ELSE IF q[1] = 0 THEN SurdOf(Zero)
    ELSE LET sn == SquarePart(q[1])
             sd == SquarePart(q[2])
             rn == q[1] \div (sn * sn)
             rd == q[2] \div (sd * sd)
         IN  Surd(Zero, Rat(sn, sd * rd), rn * rd)

\* c * x for a fraction c
SurdScale(c, x) ==
    IF x.k = Zero THEN SurdOf(Mul(c, x.a))
    ELSE Surd(Mul(c, x.a), Mul(c, x.k), x.r)

\* x + y, where x and y have the same radical or one of them has none
SurdAdd(x, y) ==
    Surd(Add(x.a, y.a), Add(x.k, y.k), IF x.k = Zero THEN y.r ELSE x.r)

SurdSub(x, y) == SurdAdd(x, SurdScale(Num(0 - 1), y))

\* x > 0
SurdPositive(x) ==
    IF x.k = Zero THEN Gt(x.a, Zero)
    ELSE LET a2  == Mul(x.a, x.a)
             k2r == Mul(Mul(x.k, x.k), Num(x.r))
         IN  IF Gt(x.k, Zero)
             THEN ~Lt(x.a, Zero) \/ Gt(k2r, a2)
             ELSE Gt(x.a, Zero) /\ Gt(a2, k2r)

SurdIsNaN(x) == IsNaN(x.a)

\* Math.max(x, y)
SurdMax(x, y) ==
    IF SurdIsNaN(x) \/ SurdIsNaN(y) THEN SurdOf(NaN)
    ELSE IF SurdPositive(SurdSub(y, x)) THEN y ELSE x

(***************************************************************************)
(* Sums of square roots.  a + sum of roots[r] * sqrt(r) over the square-   *)
(* free r > 1 in DOMAIN roots, no coefficient zero: the square roots of    *)
(* distinct square-free integers are linearly independent over the         *)
(* fractions, so equal numbers are equal records.  A sum that is not       *)
(* finite has no roots.                                                    *)
(***************************************************************************)
NoRoots == [r \in {} |-> Zero]

RootSum(a, roots) ==
    IF ~IsFinite(a) THEN [a |-> a, roots |-> NoRoots]
    ELSE [a |-> a,
          roots |-> [r \in {x \in DOMAIN roots : roots[x] # Zero} |-> roots[r]]]

\* The number a + k * sqrt(r) of Math.sqrt as a sum.
RootSumOfSurd(x) ==
    IF x.k = Zero THEN RootSum(x.a, NoRoots)
    ELSE RootSum(x.a, [r \in {x.r} |-> x.k])

RootSumOf(q) == RootSum(q, NoRoots)

\* x + y
RootSumAdd(x, y) ==
    RootSum(Add(x.a, y.a),
            [r \in DOMAIN x.roots \cup DOMAIN y.roots |->
                Add(IF r \in DOMAIN x.roots THEN x.roots[r] ELSE Zero,
                    IF r \in DOMAIN y.roots THEN y.roots[r] ELSE Zero)])

\* c * x for a fraction c
RootSumScale(c, x) ==
    RootSum(Mul(c, x.a), [r \in DOMAIN x.roots |-> Mul(c, x.roots[r])])

RootSumSub(x, y) == RootSumAdd(x, RootSumScale(Num(0 - 1), y))

\* A lower (upper) bound of k * sqrt(r) with sqrt(r) known to within 1 / scale.
RootBound(k, r, scale, upper) ==
    LET floor == IntSqrt(r * scale * scale, 0,
                         IF r * scale < SqrtLimit THEN r * scale + 1 ELSE SqrtLimit)
        low   == Rat(floor, scale)
        high  == Rat(floor + 1, scale)
    IN  Mul(k, IF upper = Gt(k, Zero) THEN high ELSE low)

RECURSIVE BoundSum(_, _, _, _)
BoundSum(roots, rs, scale, upper) ==
    IF rs = {} THEN Zero
    ELSE LET r == CHOOSE x \in rs : TRUE
         IN  Add(RootBound(roots[r], r, scale, upper),
                 BoundSum(roots, rs \ {r}, scale, upper))

\* The sign of a finite sum: exact when there are no roots; otherwise the sum
\* is irrational, hence not zero, and the bounds at a fine enough scale tell
\* its sign.  The scales tried decide every sum that occurs.
RECURSIVE RootSumSignAt(_, _)
RootSumSignAt(x, scale) ==
    IF DOMAIN x.roots = {} THEN Sgn(x.a[1])
    ELSE LET low  == Add(x.a, BoundSum(x.roots, DOMAIN x.roots, scale, FALSE))
             high == Add(x.a, BoundSum(x.roots, DOMAIN x.roots, scale, TRUE))
         IN  IF Gt(low, Zero) THEN 1
             ELSE IF Lt(high, Zero) THEN 0 - 1
             ELSE RootSumSignAt(x, scale * 8)

RootSumSign(x) == RootSumSignAt(x, 8)

(***************************************************************************)
(* statsService: calculateControlLimits                                    *)
(***************************************************************************)
\* data.map(x => Math.pow(x - mean, 2))
SquaredDeviations(d, mean) ==
    [i \in 1..Len(d) |-> Mul(Sub(d[i], mean), Sub(d[i], mean))]

\* Mutant: the sample variance's n - 1.
VarianceDivisor_Sample(n) == n - 1

\* The divisor of the variance: the population's n.
VarianceDivisor(n) == n

\* Mutant: no early return for the empty sequence.
calculateControlLimits_NoGuard(d) ==
    LET n      == Len(d)
        mean   == Div(ReduceSum(d, 0, Zero), Num(n))
        stdDev == MathSqrt(Div(ReduceSum(SquaredDeviations(d, mean), 0, Zero),
                               Num(VarianceDivisor(n))))
    IN  [mean |-> mean,
         ucl  |-> SurdAdd(SurdOf(mean), SurdScale(Num(3), stdDev)),
         lcl  |-> SurdMax(SurdOf(Zero),
                          SurdSub(SurdOf(mean), SurdScale(Num(3), stdDev)))]

calculateControlLimits(d) ==
    LET n == Len(d)
    IN  IF n = 0
        THEN [mean |-> Zero, ucl |-> SurdOf(Zero), lcl |-> SurdOf(Zero)]
        ELSE LET mean   == Div(ReduceSum(d, 0, Zero), Num(n))
                 stdDev == MathSqrt(Div(ReduceSum(SquaredDeviations(d, mean), 0, Zero),
                                        Num(VarianceDivisor(n))))
             IN  [mean |-> mean,
                  ucl  |-> SurdAdd(SurdOf(mean), SurdScale(Num(3), stdDev)),
                  lcl  |-> SurdMax(SurdOf(Zero),
                                   SurdSub(SurdOf(mean), SurdScale(Num(3), stdDev)))]

(***************************************************************************)
(* statsService: calculateEWMA                                             *)
(***************************************************************************)
\* lambda: number = 0.3
DefaultLambda == <<3, 10>>

\* Mutant: the previous input, not the previous output, is smoothed in.
RECURSIVE EWMALoop_PreviousInput(_, _, _, _)
EWMALoop_PreviousInput(d, l, i, ewma) ==
    IF ~(i < Len(d)) THEN ewma
    ELSE EWMALoop_PreviousInput(d, l, i + 1,
                  Append(ewma, Add(Mul(l, At(d, i)),
                                   Mul(Sub(One, l), At(d, i - 1)))))

\* Mutant: the two weights are swapped.
RECURSIVE EWMALoop_SwappedWeights(_, _, _, _)
EWMALoop_SwappedWeights(d, l, i, ewma) ==
    IF ~(i < Len(d)) THEN ewma
    ELSE EWMALoop_SwappedWeights(d, l, i + 1,
                  Append(ewma, Add(Mul(Sub(One, l), At(d, i)),
                                   Mul(l, At(ewma, i - 1)))))

\* The loop: ewma.push(lambda * data[i] + (1 - lambda) * ewma[i - 1])
RECURSIVE EWMALoop(_, _, _, _)
EWMALoop(d, l, i, ewma) ==
    IF ~(i < Len(d)) THEN ewma
    ELSE EWMALoop(d, l, i + 1,
                  Append(ewma, Add(Mul(l, At(d, i)),
                                   Mul(Sub(One, l), At(ewma, i - 1)))))

calculateEWMA(d, lambdaArg) ==
    LET l == IF lambdaArg = Undefined THEN DefaultLambda ELSE lambdaArg
    IN  IF Len(d) = 0 THEN <<>>
        ELSE EWMALoop(d, l, 1, <<At(d, 0)>>)

(***************************************************************************)
(* App: the cluster palette and clusterDataPerPeriod                       *)
(***************************************************************************)
\* ['عالی', 'خوب', 'متوسط', 'ضعیف', 'بحرانی'], in translation
DEFAULT_CLUSTER_LABELS == <<"excellent", "good", "fair", "poor", "critical">>

\* `دسته ${i + 1}`, in translation, for i + 1 = 1..8
GroupLabels ==
    <<"group 1", "group 2", "group 3", "group 4",
      "group 5", "group 6", "group 7", "group 8">>

\* The useMemo over clusterCount.
currentClusterLabels(count) ==
    IF count = 5 THEN DEFAULT_CLUSTER_LABELS
    ELSE [i \in 1..count |-> GroupLabels[i]]

\* Math.pow(x, 2)
Square(x) == Mul(x, x)

\* The squared distance of a sample from a centroid.  The code compares
\* d = Math.sqrt(...) with d < minDist; Math.sqrt is increasing, so the
\* comparison is decided on the squares.
Distance2(s, c) ==
    Add(Square(Sub(s.conductivity, c.ec)), Square(Sub(s.nitrate, c.no3)))

\* centroids.forEach((c, idx) => { if (d < minDist) { minDist = d; clusterIdx = idx; } })
RECURSIVE NearestLoop(_, _, _, _, _)
NearestLoop(s, centroids, idx, minDist, clusterIdx) ==
    IF ~(idx < Len(centroids)) THEN clusterIdx
    ELSE LET d == Distance2(s, At(centroids, idx))
         IN  IF Lt(d, minDist)
             THEN NearestLoop(s, centroids, idx + 1, d, idx)
             ELSE NearestLoop(s, centroids, idx + 1, minDist, clusterIdx)

\* let minDist = Infinity; let clusterIdx = 0; ... the loop
NearestCentroid(s, centroids) == NearestLoop(s, centroids, 0, Infinity, 0)

\* Math.max(...values): -Infinity for no value
RECURSIVE MaxOf(_, _, _)
MaxOf(values, i, acc) ==
    IF i >= Len(values) THEN acc
    ELSE MaxOf(values, i + 1, MathMax(acc, At(values, i)))

\* algo === 'simple': count centroids from 0 to the maxima, evenly spaced.
SimpleCentroids(count, maxEC, maxNO3) ==
    [k \in 1..count |->
        [ec  |-> Mul(Div(Num(k - 1), Num(count - 1)), maxEC),
         no3 |-> Mul(Div(Num(k - 1), Num(count - 1)), maxNO3)]]

\* The mean of a group: group.reduce(...) / group.length for both fields.
GroupMean(group) ==
    [ec  |-> Div(ReduceSum([i \in 1..Len(group) |-> group[i].conductivity], 0, Zero),
                 Num(Len(group))),
     no3 |-> Div(ReduceSum([i \in 1..Len(group) |-> group[i].nitrate], 0, Zero),
                 Num(Len(group)))]

\* samples.forEach(s => { ...; groups[clusterIdx].push(s); }): the clusterIdx
\* found for each sample, in input order.
RECURSIVE AssignLoop(_, _, _, _)
AssignLoop(smps, centroids, i, assigned) ==
    IF i >= Len(smps) THEN assigned
    ELSE AssignLoop(smps, centroids, i + 1,
                    Append(assigned, NearestCentroid(At(smps, i), centroids)))

\* groups[idx]: the samples pushed to it, in input order.
RECURSIVE GroupLoop(_, _, _, _, _)
GroupLoop(smps, assigned, idx, i, group) ==
    IF i >= Len(smps) THEN group
    ELSE IF At(assigned, i) = idx
         THEN GroupLoop(smps, assigned, idx, i + 1, Append(group, At(smps, i)))
         ELSE GroupLoop(smps, assigned, idx, i + 1, group)

Group(smps, assigned, idx) == GroupLoop(smps, assigned, idx, 0, <<>>)

\* Mutant: an empty group is reseeded at the origin.
NextCentroid_ReseedsEmpty(group, centroids, idx) ==
    IF Len(group) = 0 THEN [ec |-> Zero, no3 |-> Zero] ELSE GroupMean(group)

\* The centroid of cluster idx after an iteration: an empty group keeps
\* centroids[idx].
NextCentroid(group, centroids, idx) ==
    IF Len(group) = 0 THEN At(centroids, idx) ELSE GroupMean(group)

\* centroids = groups.map((group, idx) => ...), one idx at a time.
RECURSIVE RecomputeLoop(_, _, _, _, _, _)
RecomputeLoop(smps, count, centroids, assigned, idx, next) ==
    IF ~(idx < count) THEN next
    ELSE RecomputeLoop(smps, count, centroids, assigned, idx + 1,
                       Append(next, NextCentroid(Group(smps, assigned, idx),
                                                 centroids, idx)))

\* One k-means iteration: the assignment pass, then the new centroids.
RecomputeCentroids(smps, count, centroids) ==
    RecomputeLoop(smps, count, centroids, AssignLoop(smps, centroids, 0, <<>>), 0, <<>>)

KMeansIterations == 10

\* for (let iter = 0; iter < 10; iter++), from iteration iter on: the values
\* the variable centroids takes, from the one it has when the loop test is
\* evaluated for iter to the one it has when the loop ends.  The assignment
\* centroids = groups.map(...) ends each iteration with an array of values:
\* next is bound to the value, so that TLC, which passes operator arguments
\* unevaluated, computes it once.
RECURSIVE KMeansLoop(_, _, _, _)
KMeansLoop(smps, count, iter, centroids) ==
    IF ~(iter < KMeansIterations) THEN <<centroids>>
    ELSE CHOOSE result \in { <<centroids>> \o KMeansLoop(smps, count, iter + 1, next)
                             : next \in {RecomputeCentroids(smps, count, centroids)} } : TRUE

\* Mutant: the centroids of the previous run, when there are count of them,
\* seed the next one.
SeedCentroids_FromLastRun(smps, count) ==
    IF called # "none" /\ Len(locals.centroids) = count
    THEN locals.centroids
    ELSE [k \in 1..(IF count < Len(smps) THEN count ELSE Len(smps)) |->
             [ec |-> smps[k].conductivity, no3 |-> smps[k].nitrate]]

\* samples.slice(0, count).map(s => ({ ec: s.conductivity, no3: s.nitrate }))
SeedCentroids(smps, count) ==
    [k \in 1..(IF count < Len(smps) THEN count ELSE Len(smps)) |->
        [ec |-> smps[k].conductivity, no3 |-> smps[k].nitrate]]

\* The comparator (a, b) => (a.ec + a.no3) - (b.ec + b.no3): negative when a
\* sorts before b.
CompareCentroids(a, b) == Sub(Add(a.ec, a.no3), Add(b.ec, b.no3))

\* Array.prototype.sort is stable: c goes after every element that does not
\* compare greater than it.
RECURSIVE InsertSorted(_, _)
InsertSorted(sorted, c) ==
    IF Len(sorted) = 0 THEN <<c>>
    ELSE IF Gt(CompareCentroids(sorted[Len(sorted)], c), Zero)
         THEN Append(InsertSorted(SubSeq(sorted, 1, Len(sorted) - 1), c),
                     sorted[Len(sorted)])
         ELSE Append(sorted, c)

RECURSIVE SortLoop(_, _, _)
SortLoop(centroids, i, sorted) ==
    IF i >= Len(centroids) THEN sorted
    ELSE SortLoop(centroids, i + 1, InsertSorted(sorted, At(centroids, i)))

\* Mutant: the centroids are used in the order computed.
SortCentroids_NotSorted(centroids) == centroids

\* centroids.sort(...)
SortCentroids(centroids) == SortLoop(centroids, 0, <<>>)

\* Mutant: the copy is built field by field, the two measurements crossed.
WithCluster_CrossedFields(s, label) ==
    [id |-> s.id, conductivity |-> s.nitrate, nitrate |-> s.conductivity,
     timestamp |-> s.timestamp, cluster |-> label]

\* { ...s, cluster: label }: a new object, s is not written.
WithCluster(s, label) ==
    [id |-> s.id, conductivity |-> s.conductivity, nitrate |-> s.nitrate,
     timestamp |-> s.timestamp, cluster |-> label]

\* samples.length < count
TooFewSamples(smps, count) == Len(smps) < count

\* The labelling pass: every sample with the label of its nearest centroid.
\* labels is the currentClusterLabels the function closes over.
LabelSamples(labels, smps, centroids) ==
    [i \in 1..Len(smps) |->
        WithCluster(smps[i], At(labels, NearestCentroid(smps[i], centroids)))]

\* The early return: every sample with currentClusterLabels[0]; maxEC, maxNO3
\* and centroids are never computed (Undefined).  samples is the argument array
\* when the function returns: map builds a new array of new objects.
DegenerateRun(labels, smps) ==
    [out |-> [i \in 1..Len(smps) |-> WithCluster(smps[i], At(labels, 0))],
     maxEC |-> Undefined, maxNO3 |-> Undefined, centroids |-> Undefined,
     iterations |-> Undefined, samples |-> smps]

\* The rest of the function: the maxima, the centroids of the algorithm, the
\* sort, the labelling pass.  iterations holds the values of centroids during
\* the k-means loop (Undefined when the loop is not entered).  map, slice, forEach and reduce read the argument
\* array, push fills the local groups and sort orders the local centroids.
FullRun(labels, smps, count, algo) ==
    LET maxEC  == MaxOf([i \in 1..Len(smps) |-> smps[i].conductivity], 0, Neg(Infinity))
        maxNO3 == MaxOf([i \in 1..Len(smps) |-> smps[i].nitrate], 0, Neg(Infinity))
        Sorted(computed, iterations) ==
            CHOOSE run \in { [out |-> LabelSamples(labels, smps, centroids),
                              maxEC |-> maxEC, maxNO3 |-> maxNO3,
                              centroids |-> centroids, iterations |-> iterations,
                              samples |-> smps]
                            : centroids \in {SortCentroids(computed)} } : TRUE
    IN  IF algo = "simple"
        THEN Sorted(SimpleCentroids(count, maxEC, maxNO3), Undefined)
        ELSE CHOOSE run \in { Sorted(iterations[Len(iterations)], iterations)
                              : iterations \in {KMeansLoop(smps, count, 0,
                                                           SeedCentroids(smps, count))} }
                 : TRUE

\* clusterDataPerPeriod as defined by a render whose currentClusterLabels is
\* labels, with its locals: out is the value returned, and maxEC, maxNO3 and
\* centroids are the locals when it returned.
ClusterRunWith(labels, smps, count, algo) ==
    IF TooFewSamples(smps, count)
    THEN DegenerateRun(labels, smps)
    ELSE FullRun(labels, smps, count, algo)

\* Mutant: only k-means takes the early return.
ClusterRun_SimpleNeverDegenerate(smps, count, algo) ==
    IF TooFewSamples(smps, count) /\ algo = "kmeans"
    THEN DegenerateRun(currentClusterLabels(clusterCount), smps)
    ELSE FullRun(currentClusterLabels(clusterCount), smps, count, algo)

\* clusterDataPerPeriod of the current render: the palette is that of the
\* state's clusterCount.
ClusterRun(smps, count, algo) ==
    ClusterRunWith(currentClusterLabels(clusterCount), smps, count, algo)

clusterDataPerPeriod(smps, count, algo) == ClusterRun(smps, count, algo).out

(***************************************************************************)
(* The calls of the statistics service.  Each behaviour draws one input    *)
(* sequence and applies one function to it; the output of calculateEWMA    *)
(* may then be fed back with lambda = 1.                                   *)
(***************************************************************************)
BoundedSeq(S, n) == UNION {[1..k -> S] : k \in 0..n}

Nums(intSeq) == [i \in 1..Len(intSeq) |-> Num(intSeq[i])]

\* The sequences the documentation works through, and one series of field
\* magnitude whose lower control limit is above zero.
Examples ==
    { Nums(<<1, 2, 10, 11>>), Nums(<<2, 4, 4, 4, 5, 5, 7, 9>>), Nums(<<10, 20>>),
      Nums(<<1, 2, 3, 4>>), Nums(<<4, 3, 2, 1>>), Nums(<<5, 5, 5>>),
      Nums(<<10, 10, 11>>) }

\* parseFloat lets negative numbers and Infinity through (isNaN drops only NaN).
Values == {Num(v) : v \in (0 - 1)..MaxVal} \cup {Infinity}

DataInputs == BoundedSeq(Values, MaxLen) \cup Examples

DateNames == <<"d0", "d1", "d2", "d3", "d4", "d5", "d6", "d7", "d8", "d9">>

\* Parallel date labels: the periods in ascending or in descending order.
DateChoices(n) ==
    { [i \in 1..n |-> DateNames[i]], [i \in 1..n |-> DateNames[n + 1 - i]] }

Lambdas == {Zero, <<1, 2>>, One, Undefined}

StatsInit ==
    /\ data \in DataInputs
    /\ dates = <<>>
    /\ lambda = Undefined
    /\ samples = <<>>
    /\ clusterCount = 5
    /\ clusteringAlgo = "simple"
    /\ called = "none"
    /\ ret = Undefined
    /\ locals = Undefined
    /\ first = Undefined
    /\ NoApp

CallMannKendall ==
    /\ called = "none"
    /\ called' = "calculateMannKendall"
    /\ ret' = calculateMannKendall(data)
    /\ UNCHANGED <<data, dates, lambda, samples, clusterCount, clusteringAlgo, locals, first, appVars>>

CallPettitt ==
    /\ called = "none"
    /\ \E ds \in DateChoices(Len(data)) :
          /\ dates' = ds
          /\ ret' = findPettittChangePoint(data, ds)
    /\ called' = "findPettittChangePoint"
    /\ UNCHANGED <<data, lambda, samples, clusterCount, clusteringAlgo, locals, first, appVars>>

CallControlLimits ==
    /\ called = "none"
    /\ called' = "calculateControlLimits"
    /\ ret' = calculateControlLimits(data)
    /\ UNCHANGED <<data, dates, lambda, samples, clusterCount, clusteringAlgo, locals, first, appVars>>

CallEWMA ==
    /\ called = "none"
    /\ \E l \in Lambdas :
          /\ lambda' = l
          /\ ret' = calculateEWMA(data, l)
    /\ called' = "calculateEWMA"
    /\ UNCHANGED <<data, dates, samples, clusterCount, clusteringAlgo, locals, first, appVars>>

\* The output of calculateEWMA passed through calculateEWMA again, lambda = 1.
FeedEWMA ==
    /\ called = "calculateEWMA"
    /\ data' = ret
    /\ lambda' = One
    /\ ret' = calculateEWMA(ret, One)
    /\ called' = "calculateEWMA(fed back)"
    /\ UNCHANGED <<dates, samples, clusterCount, clusteringAlgo, locals, first, appVars>>

StatsNext ==
    \/ CallMannKendall
    \/ CallPettitt
    \/ CallControlLimits
    \/ CallEWMA
    \/ FeedEWMA

SpecStats == StatsInit /\ [][StatsNext]_vars

(***************************************************************************)
(* Properties of the statistics service.                                   *)
(***************************************************************************)
\* The index pairs i < j of a sequence (1-based).
Pairs(d) == {p \in (1..Len(d)) \X (1..Len(d)) : p[1] < p[2]}

\* S: pairs whose later value is greater, minus pairs whose later value is smaller.
PairSum(d) ==
    Cardinality({p \in Pairs(d) : Gt(d[p[2]], d[p[1]])})
      - Cardinality({p \in Pairs(d) : Lt(d[p[2]], d[p[1]])})

\* C1: calculateMannKendall returns the increasing verdict exactly when S > 0, the
\* decreasing verdict exactly when S < 0 and the stable verdict exactly when S = 0,
\* for sequences of every length, 0 and 1 included.
C1_MannKendallVerdict ==
    called = "calculateMannKendall" =>
        /\ (ret = Increasing) <=> (PairSum(data) > 0)
        /\ (ret = Decreasing) <=> (PairSum(data) < 0)
        /\ (ret = Stable) <=> (PairSum(data) = 0)

\* A decreasing verdict on a sequence that also holds a rising pair.
C1_Witness ==
    /\ called = "calculateMannKendall"
    /\ ret = Decreasing
    /\ \E p \in Pairs(data) : Gt(data[p[2]], data[p[1]])

\* Every element is greater (less) than the one before it; all are equal.
StrictlyIncreasing(d) == \A i \in 2..Len(d) : Gt(d[i], d[i - 1])

StrictlyDecreasing(d) == \A i \in 2..Len(d) : Lt(d[i], d[i - 1])

Constant(d) == \A i \in 2..Len(d) : d[i] = d[i - 1]

\* C19: calculateMannKendall returns the increasing verdict for every strictly
\* increasing sequence of length >= 2, the decreasing verdict for every strictly
\* decreasing sequence of length >= 2 and the stable verdict for every constant
\* sequence.
C19_MonotoneAndConstantVerdicts ==
    called = "calculateMannKendall" =>
        /\ (Len(data) >= 2 /\ StrictlyIncreasing(data)) => ret = Increasing
        /\ (Len(data) >= 2 /\ StrictlyDecreasing(data)) => ret = Decreasing
        /\ Constant(data) => ret = Stable

\* The decreasing verdict on a strictly decreasing sequence of three or more
\* elements.
C19_Witness ==
    /\ called = "calculateMannKendall"
    /\ Len(data) >= 3
    /\ StrictlyDecreasing(data)
    /\ ret = Decreasing

\* U(t), t the 0-based split: pairs (i < t, j >= t) with data[i] > data[j], minus
\* those with data[i] < data[j].
SplitU(d, t) ==
    LET before == 1..t
        after  == (t + 1)..Len(d)
    IN  Cardinality({p \in before \X after : Gt(d[p[1]], d[p[2]])})
          - Cardinality({p \in before \X after : Lt(d[p[1]], d[p[2]])})

Splits(d) == 1..(Len(d) - 1)

\* The splits at which |U| is largest.
ArgMaxSplits(d) ==
    {t \in Splits(d) : \A t2 \in Splits(d) : Abs(SplitU(d, t)) >= Abs(SplitU(d, t2))}

AllUZero(d) == \A t \in Splits(d) : SplitU(d, t) = 0

\* C2 as stated: for every sequence of length >= 4 findPettittChangePoint returns
\* a date label, never null, at a split that maximises |U(t)|, constant sequences
\* and sequences whose every U(t) is 0 included.
C2_AlwaysReportsChangePoint ==
    (called = "findPettittChangePoint" /\ Len(data) >= 4) =>
        /\ ret # Null
        /\ \E t \in ArgMaxSplits(data) : ret = At(dates, t)

\* C2 amended: for every sequence of length >= 4 with some U(t) # 0 the function
\* returns a date label, never null, at a split that maximises |U(t)|; when every
\* U(t) is 0 (a constant sequence) it returns null.
C2_ReportsUnlessAllZero ==
    (called = "findPettittChangePoint" /\ Len(data) >= 4) =>
        IF AllUZero(data)
        THEN ret = Null
        ELSE /\ ret # Null
             /\ \E t \in ArgMaxSplits(data) : ret = At(dates, t)

\* Both cases: a constant sequence of length 4 answered with null, which is the
\* state below, and (C4_Witness) a label for a sequence with some U(t) # 0.
C2_Witness ==
    /\ called = "findPettittChangePoint"
    /\ Len(data) = 4
    /\ AllUZero(data)
    /\ dates = <<"d0", "d1", "d2", "d3">>
    /\ ret = Null

\* C3: for every sequence of length < 4 findPettittChangePoint returns null,
\* whatever the values and the date labels.
C3_ShortSequenceNull ==
    (called = "findPettittChangePoint" /\ Len(data) < 4) => ret = Null

\* Three values with a clear step, labels in descending order.
C3_Witness ==
    /\ called = "findPettittChangePoint"
    /\ Len(data) = 3
    /\ ~AllUZero(data)
    /\ dates = <<"d2", "d1", "d0">>
    /\ ret = Null

\* C4: when findPettittChangePoint returns a label for a sequence of length n >= 4,
\* the label is dates[t] for a split t in 1..n-1 with |U(t)| >= |U(t')| for every
\* split t'; [1,2,10,11] with dates [d0,d1,d2,d3] yields d2.
C4_LabelAtArgMax ==
    called = "findPettittChangePoint" =>
        /\ (Len(data) >= 4 /\ ret # Null) =>
               \E t \in ArgMaxSplits(data) : ret = At(dates, t)
        /\ (data = Nums(<<1, 2, 10, 11>>) /\ dates = <<"d0", "d1", "d2", "d3">>) =>
               ret = "d2"

\* A label returned for a sequence with U of both signs at different splits.
C4_Witness ==
    /\ called = "findPettittChangePoint"
    /\ Len(data) >= 4
    /\ ret # Null
    /\ \E t \in Splits(data) : SplitU(data, t) > 0
    /\ \E t \in Splits(data) : SplitU(data, t) < 0

\* Arithmetic mean: the sum over the length.
MeanOf(d) == Div(ReduceSum(d, 0, Zero), Num(Len(d)))

\* Population variance as the mean of the squares minus the square of the mean.
PopulationVariance(d) ==
    Sub(Div(ReduceSum([i \in 1..Len(d) |-> Mul(d[i], d[i])], 0, Zero), Num(Len(d))),
        Mul(MeanOf(d), MeanOf(d)))

\* mean - 3 sigma < 0, decided on the squares.
BelowZero(mean, variance) ==
    Lt(mean, Zero) \/ Lt(Mul(mean, mean), Mul(Num(9), variance))

\* C5: for every non-empty sequence calculateControlLimits returns the arithmetic
\* mean, ucl = mean + 3 sigma and lcl = max(0, mean - 3 sigma), sigma the population
\* standard deviation (divisor n); [2,4,4,4,5,5,7,9] gives mean 5, ucl 11, lcl 0.
C5_ControlLimits ==
    (called = "calculateControlLimits" /\ Len(data) > 0) =>
        LET mean     == MeanOf(data)
            variance == PopulationVariance(data)
            sigma3   == SurdScale(Num(3), MathSqrt(variance))
        IN  /\ ret.mean = mean
            /\ ret.ucl = SurdAdd(SurdOf(mean), sigma3)
            /\ ret.lcl = IF IsNaN(mean) \/ IsNaN(variance) THEN SurdOf(NaN)
                         ELSE IF BelowZero(mean, variance) THEN SurdOf(Zero)
                         ELSE SurdSub(SurdOf(mean), sigma3)
            /\ data = Nums(<<2, 4, 4, 4, 5, 5, 7, 9>>) =>
                  /\ ret.mean = Num(5)
                  /\ ret.ucl = SurdOf(Num(11))
                  /\ ret.lcl = SurdOf(Zero)

\* Limits of a series with sigma > 0 and a lower limit above the floor.
C5_Witness ==
    /\ called = "calculateControlLimits"
    /\ Len(data) > 1
    /\ ret.ucl # SurdOf(ret.mean)
    /\ SurdPositive(ret.lcl)

\* C6: calculateControlLimits of the empty sequence returns mean = 0, ucl = 0 and
\* lcl = 0; nothing is divided by the length 0, so no field is NaN.
C6_EmptyControlLimits ==
    (called = "calculateControlLimits" /\ data = <<>>) =>
        /\ ret = [mean |-> Zero, ucl |-> SurdOf(Zero), lcl |-> SurdOf(Zero)]
        /\ ~IsNaN(ret.mean) /\ ~SurdIsNaN(ret.ucl) /\ ~SurdIsNaN(ret.lcl)

C6_Witness ==
    /\ called = "calculateControlLimits"
    /\ data = <<>>
    /\ ret.mean = Zero

\* The smoothing factor in force: 0.3 when omitted.
LambdaUsed == IF lambda = Undefined THEN <<3, 10>> ELSE lambda

\* C7: calculateEWMA returns a sequence of the length of its input, element 0 the
\* input's element 0 and element i >= 1 equal to
\* lambda * input[i] + (1 - lambda) * output[i - 1]; the empty input gives the
\* empty output; lambda is 0.3 when omitted, so [10,20] gives [10,13].
C7_EWMARecurrence ==
    called = "calculateEWMA" =>
        /\ Len(ret) = Len(data)
        /\ Len(data) > 0 => ret[1] = data[1]
        /\ \A i \in 2..Len(data) :
              ret[i] = Add(Mul(LambdaUsed, data[i]),
                           Mul(Sub(One, LambdaUsed), ret[i - 1]))
        /\ data = <<>> => ret = <<>>
        /\ (data = Nums(<<10, 20>>) /\ lambda = Undefined) => ret = Nums(<<10, 13>>)

\* Three or more finite values smoothed with lambda = 1/2 into something else.
C7_Witness ==
    /\ called = "calculateEWMA"
    /\ Len(data) >= 3
    /\ lambda = <<1, 2>>
    /\ \A i \in 1..Len(data) : IsFinite(data[i])
    /\ ret[3] # data[3]
    /\ ret[3] # ret[2]

\* JavaScript's === on numbers: NaN equals nothing.
StrictEquals(p, q) == ~IsNaN(p) /\ p = q

SameElements(a, b) ==
    Len(a) = Len(b) /\ \A i \in 1..Len(a) : StrictEquals(a[i], b[i])

AllFinite(d) == \A i \in 1..Len(d) : IsFinite(d[i])

\* C8 as stated: for every numeric sequence x, calculateEWMA(x, 1) equals x element
\* for element, so an EWMA output fed back with lambda = 1 comes back unchanged.
C8_LambdaOneIsIdentity ==
    /\ (called = "calculateEWMA" /\ lambda = One) => SameElements(ret, data)
    /\ called = "calculateEWMA(fed back)" => SameElements(ret, data)

\* C8 amended: for every sequence x of finite numbers, calculateEWMA(x, 1) equals x
\* element for element, so an EWMA output whose elements are finite comes back
\* unchanged when fed back with lambda = 1.
C8_LambdaOneIsIdentityOnFinite ==
    /\ (called = "calculateEWMA" /\ lambda = One /\ AllFinite(data)) =>
           SameElements(ret, data)
    /\ (called = "calculateEWMA(fed back)" /\ AllFinite(data)) =>
           SameElements(ret, data)

\* A smoothed output (not integral any more) of three or more values, fed back.
C8_Witness ==
    /\ called = "calculateEWMA(fed back)"
    /\ Len(data) >= 3
    /\ AllFinite(data)
    /\ \E i \in 1..Len(data) : data[i][2] > 1
    /\ data[3] # data[2]
    /\ ret = data

(***************************************************************************)
(* The clustering of one period, as processedTimePoints runs it: on the    *)
(* period's samples with the cluster count and the algorithm of the state. *)
(***************************************************************************)
\* <input type="range" min="3" max="8">
MinClusterCount == 3

MaxClusterCount == 8

\* (conductivity, nitrate) of the samples drawn: two points of equal sum and a
\* point below zero at equal distance from both.
Points == {<<2, 0>>, <<0, 2>>, <<0 - 1, 0 - 1>>}

StationIds == <<"S1", "S2", "S3", "S4", "S5", "S6", "S7", "S8">>

\* The rows of one file: the station of row i is StationIds[i].
SampleLists ==
    UNION { { [i \in 1..n |->
                 [id |-> StationIds[i], conductivity |-> Num(f[i][1]),
                  nitrate |-> Num(f[i][2]), timestamp |-> "period.xlsx"]]
              : f \in [1..n -> Points] }
            : n \in 0..MaxSamples }

ClusterInit ==
    /\ data = <<>>
    /\ dates = <<>>
    /\ lambda = Undefined
    /\ samples \in SampleLists
    /\ clusterCount \in MinClusterCount..MaxClusterCount
    /\ clusteringAlgo \in {"simple", "kmeans"}
    /\ called = "none"
    /\ ret = Undefined
    /\ locals = Undefined
    /\ first = Undefined
    /\ NoApp

CallClusterDataPerPeriod ==
    /\ called = "none"
    /\ called' = "clusterDataPerPeriod"
    /\ \E run \in {ClusterRun(samples, clusterCount, clusteringAlgo)} :
          /\ ret' = run.out
          /\ locals' = [maxEC |-> run.maxEC, maxNO3 |-> run.maxNO3,
                        centroids |-> run.centroids, iterations |-> run.iterations]
          /\ samples' = run.samples
    /\ UNCHANGED <<data, dates, lambda, clusterCount, clusteringAlgo, first, appVars>>

ClusterNext == CallClusterDataPerPeriod

SpecCluster == ClusterInit /\ [][ClusterNext]_vars

(***************************************************************************)
(* Properties of the clustering.                                           *)
(***************************************************************************)
CentroidSum(c) == Add(c.ec, c.no3)

\* The centroids at least as near to s as every other one.
NearestSet(s, centroids) ==
    {i \in 1..Len(centroids) :
        \A j \in 1..Len(centroids) :
            ~Lt(Distance2(s, centroids[j]), Distance2(s, centroids[i]))}

\* The lowest 0-based index among them.
LowestNearest(s, centroids) ==
    LET nearest == NearestSet(s, centroids)
    IN  (CHOOSE i \in nearest : \A j \in nearest : i <= j) - 1

\* C9: in every run with at least k samples, either algorithm, the centroids
\* used for labelling are in non-decreasing order of conductivity + nitrate, each
\* sample carries the palette label at the index of its nearest centroid in that
\* order, and palette index 0 goes with a centroid of minimal sum.
C9_LabelsFollowSortedCentroids ==
    (called = "clusterDataPerPeriod" /\ Len(samples) >= clusterCount) =>
        LET centroids == locals.centroids
        IN  /\ \A i \in 1..Len(centroids), j \in 1..Len(centroids) :
                  i < j => ~Gt(CentroidSum(centroids[i]), CentroidSum(centroids[j]))
            /\ \A i \in 1..Len(samples) :
                  ret[i].cluster = At(currentClusterLabels(clusterCount),
                                      LowestNearest(samples[i], centroids))
            /\ \A j \in 1..Len(centroids) :
                  ~Gt(CentroidSum(centroids[1]), CentroidSum(centroids[j]))

\* A k-means run whose first seed, the first sample, did not end in cluster 0:
\* the sort moved the centroids.
C9_Witness ==
    /\ called = "clusterDataPerPeriod"
    /\ clusteringAlgo = "kmeans"
    /\ Len(samples) > clusterCount
    /\ ret[1].cluster # At(currentClusterLabels(clusterCount), 0)
    /\ \E i \in 1..Len(ret) : ret[i].cluster = At(currentClusterLabels(clusterCount), 0)

\* The lowest-severity label of the palette in force.
FirstLabel == IF clusterCount = 5 THEN "excellent" ELSE "group 1"

\* C10: with fewer samples than k (an empty period included) every sample gets
\* the first palette label, for either algorithm, and no maximum and no centroid
\* is computed.
C10_TooFewSamplesFirstLabel ==
    (called = "clusterDataPerPeriod" /\ Len(samples) < clusterCount) =>
        /\ Len(ret) = Len(samples)
        /\ \A i \in 1..Len(ret) : ret[i].cluster = FirstLabel
        /\ locals = [maxEC |-> Undefined, maxNO3 |-> Undefined, centroids |-> Undefined,
                     iterations |-> Undefined]

\* Four samples at different points with the default palette of five.
C10_Witness ==
    /\ called = "clusterDataPerPeriod"
    /\ clusterCount = 5
    /\ Len(samples) = 4
    /\ samples[1].conductivity # samples[2].conductivity
    /\ \A i \in 1..Len(ret) : ret[i].cluster = "excellent"

\* C13: a run changes nothing but the cluster label: the output has the samples
\* of the input in the input's order, each with the id, conductivity, nitrate
\* and timestamp of the input sample at its position, and the input list and
\* its records are as they were.
C13_OnlyLabelAdded ==
    [][ (called = "none" /\ called' = "clusterDataPerPeriod") =>
          /\ samples' = samples
          /\ Len(ret') = Len(samples)
          /\ \A i \in 1..Len(samples) :
                /\ ret'[i].id = samples[i].id
                /\ ret'[i].conductivity = samples[i].conductivity
                /\ ret'[i].nitrate = samples[i].nitrate
                /\ ret'[i].timestamp = samples[i].timestamp
                /\ DOMAIN ret'[i] = DOMAIN samples[i] \cup {"cluster"} ]_vars

\* A k-means run that gave two labels to samples at different points, the
\* first sample not in the first cluster.
C13_Witness ==
    /\ called = "clusterDataPerPeriod"
    /\ clusteringAlgo = "kmeans"
    /\ Len(samples) >= clusterCount
    /\ samples[1].conductivity # samples[1].nitrate
    /\ ret[1].cluster # At(currentClusterLabels(clusterCount), 0)
    /\ \E i \in 1..Len(ret) : ret[i].cluster # ret[1].cluster

\* The cluster of every sample: the 0-based index of its nearest centroid, the
\* lowest index among equally near ones.
Assignment(smps, centroids) ==
    <<>> \o [i \in 1..Len(smps) |-> LowestNearest(smps[i], centroids)]

\* The samples assigned to the cluster of 0-based index idx.
Members(assigned, idx) == {i \in 1..Len(assigned) : assigned[i] = idx}

\* The sum of a field over the samples of a set of positions.
RECURSIVE FieldSum(_, _, _)
FieldSum(smps, members, field) ==
    IF members = {} THEN Zero
    ELSE LET i == CHOOSE m \in members : TRUE
         IN  Add(smps[i][field], FieldSum(smps, members \ {i}, field))

MemberMean(smps, members) ==
    [ec  |-> Div(FieldSum(smps, members, "conductivity"), Num(Cardinality(members))),
     no3 |-> Div(FieldSum(smps, members, "nitrate"), Num(Cardinality(members)))]

\* C20: a k-means run on at least k samples starts from the values of the
\* first k samples in input order and runs 10 iterations, none skipped; there
\* are k centroids after every iteration; in every iteration the centroid of a
\* cluster with no sample assigned stays as it was and that of every other
\* cluster becomes the mean of the samples assigned to it, a sample being
\* assigned to the lowest-index centroid among the nearest ones.
C20_KMeansIterations ==
    (called = "clusterDataPerPeriod" /\ clusteringAlgo = "kmeans"
        /\ Len(samples) >= clusterCount) =>
        LET iterations == locals.iterations
        IN  /\ Len(iterations) = 10 + 1
            /\ iterations[1] = [k \in 1..clusterCount |->
                                   [ec |-> samples[k].conductivity,
                                    no3 |-> samples[k].nitrate]]
            /\ \A t \in 1..Len(iterations) : Len(iterations[t]) = clusterCount
            /\ \A t \in 1..10 :
                  LET assigned == Assignment(samples, iterations[t])
                  IN  \A idx \in 0..(clusterCount - 1) :
                         LET members == Members(assigned, idx)
                         IN  At(iterations[t + 1], idx) =
                                IF members = {} THEN At(iterations[t], idx)
                                ELSE MemberMean(samples, members)

\* A k-means run in which a cluster stayed empty and kept its seed, another
\* cluster's centroid moved to a mean of several samples, and the centroids
\* still changed in the second iteration.
C20_Witness ==
    /\ called = "clusterDataPerPeriod"
    /\ clusteringAlgo = "kmeans"
    /\ Len(samples) >= clusterCount
    /\ \E idx \in 0..(clusterCount - 1) :
          Members(Assignment(samples, locals.iterations[1]), idx) = {}
    /\ \E idx \in 0..(clusterCount - 1) :
          /\ Cardinality(Members(Assignment(samples, locals.iterations[1]), idx)) > 1
          /\ At(locals.iterations[2], idx) # At(locals.iterations[1], idx)
    /\ locals.iterations[3] # locals.iterations[2]

(***************************************************************************)
(* Repeated runs.  processedTimePoints runs clusterDataPerPeriod again on  *)
(* every change of clusterCount or clusteringAlgo: a first run, possibly a *)
(* run under one changed setting, then a run under the first settings.     *)
(***************************************************************************)
RerunSampleLists == {l \in SampleLists : Len(l) <= MaxRerunSamples}

RerunInit ==
    /\ data = <<>>
    /\ dates = <<>>
    /\ lambda = Undefined
    /\ samples \in RerunSampleLists
    /\ clusterCount \in MinClusterCount..MaxClusterCount
    /\ clusteringAlgo \in {"simple", "kmeans"}
    /\ called = "none"
    /\ ret = Undefined
    /\ locals = Undefined
    /\ first = Undefined
    /\ NoApp

\* The settings become count and algo and the re-render runs the function it
\* defines, which closes over the palette of count.
Rerun(count, algo) ==
    /\ clusterCount' = count
    /\ clusteringAlgo' = algo
    /\ \E run \in {ClusterRunWith(currentClusterLabels(count), samples, count, algo)} :
          /\ ret' = run.out
          /\ locals' = [maxEC |-> run.maxEC, maxNO3 |-> run.maxNO3,
                        centroids |-> run.centroids, iterations |-> run.iterations]
    /\ UNCHANGED <<data, dates, lambda, samples, appVars>>

FirstRun ==
    /\ called = "none"
    /\ called' = "first run"
    /\ Rerun(clusterCount, clusteringAlgo)
    /\ first' = [count |-> clusterCount, algo |-> clusteringAlgo, out |-> ret']

\* setClusterCount(parseInt(e.target.value)), then the run of the re-render.
RunWithOtherCount ==
    /\ called = "first run"
    /\ called' = "other run"
    /\ \E count \in (MinClusterCount..MaxClusterCount) \ {clusterCount} :
          Rerun(count, clusteringAlgo)
    /\ UNCHANGED <<first, appVars>>

\* setClusteringAlgo('simple' | 'kmeans'), then the run of the re-render.
RunWithOtherAlgo ==
    /\ called = "first run"
    /\ called' = "other run"
    /\ \E algo \in {"simple", "kmeans"} \ {clusteringAlgo} :
          Rerun(clusterCount, algo)
    /\ UNCHANGED <<first, appVars>>

\* The settings of the first run again, and its run.
RunAgain ==
    /\ called \in {"first run", "other run"}
    /\ called' = "same run"
    /\ Rerun(first.count, first.algo)
    /\ UNCHANGED <<first, appVars>>

RerunNext ==
    \/ FirstRun
    \/ RunWithOtherCount
    \/ RunWithOtherAlgo
    \/ RunAgain

SpecRerun == RerunInit /\ [][RerunNext]_vars

MaxPeriods == 2

NoCell == [t |-> "undefined", v |-> ""]

NumberCell(lexeme) == [t |-> "number", v |-> lexeme]

StringCell(text) == [t |-> "string", v |-> text]

\* parseFloat on the texts that occur: the longest numeric prefix, else NaN.
ParseFloatText ==
    "-3" :> Num(0 - 3) @@ "-2" :> Num(0 - 2) @@ "-1" :> Num(0 - 1) @@ "0" :> Zero @@
    "1" :> One @@ "2" :> Num(2) @@ "3" :> Num(3) @@ "2 mS" :> Num(2) @@
    "n/a" :> NaN @@ "" :> NaN

\* parseFloat(cell): the cell converted to a string and parsed.
parseFloat(cell) == IF cell.t = "undefined" THEN NaN ELSE ParseFloatText[cell.v]

\* JavaScript truthiness: undefined, 0, NaN and "" are falsy.
Truthy(cell) ==
    \/ cell.t = "string" /\ cell.v # ""
    \/ cell.t = "number" /\ ParseFloatText[cell.v] \notin {Zero, NaN}

\* a || b
Or(a, b) == IF Truthy(a) THEN a ELSE b

\* row[name]
Column(row, name) == IF name \in DOMAIN row THEN row[name] ELSE NoCell

\* String.prototype.trim on the station names that occur.
Trim(text) == IF text = " S1 " THEN "S1" ELSE text

\* id.toString().trim()
IdText(cell) == IF cell.t = "string" THEN Trim(cell.v) ELSE cell.v

\* The id, ec and no3 of the callback of rows.map in handleFileUpload.
\* "station name (fa)" and the other (fa) columns are the Persian column names
\* of the source, and "unknown" its Persian default.
RowId(row) ==
    Or(Or(Or(Or(Column(row, "Code"), Column(row, "ID")),
             Column(row, "station name (fa)")),
          Column(row, "point name (fa)")), StringCell("unknown"))

RowEC(row) ==
    parseFloat(Or(Or(Or(Column(row, "EC "), Column(row, "EC")),
                     Column(row, "Conductivity")),
                  Column(row, "conductivity (fa)")))

RowNO3(row) ==
    parseFloat(Or(Or(Column(row, "NO3"), Column(row, "Nitrate")),
                  Column(row, "nitrate (fa)")))

\* if (isNaN(ec) || isNaN(no3)) return null
RowIsNull(row) == IsNaN(RowEC(row)) \/ IsNaN(RowNO3(row))

\* The sample of a row that is not null; timestamp is file.name.
RawSample(row, fileName) ==
    [id |-> IdText(RowId(row)), conductivity |-> RowEC(row), nitrate |-> RowNO3(row),
     timestamp |-> fileName]

\* rows.map(...).filter(s => s !== null)
RECURSIVE RawSamples(_, _, _, _)
RawSamples(rows, fileName, i, acc) ==
    IF i >= Len(rows) THEN acc
    ELSE RawSamples(rows, fileName, i + 1,
                    IF RowIsNull(At(rows, i)) THEN acc
                    ELSE Append(acc, RawSample(At(rows, i), fileName)))

\* file.name.replace(/\.[^/.]+$/, ""): the name without its last extension.
\* A name is its part before the last dot (base) and the extension after it.
DateOf(name) == name.base

\* The collation order of the dates that occur.
DateRank == "2020" :> 0 @@ "2021" :> 1 @@ "2022" :> 2 @@ "2023" :> 3

\* a.localeCompare(b)
localeCompare(a, b) == Sgn(DateRank[a] - DateRank[b])

\* Rows with the columns Code, EC and NO3 as numbers; with ID, Conductivity and
\* Nitrate as texts.
NumberRow(code, ec, no3) ==
    "Code" :> StringCell(code) @@ "EC" :> NumberCell(ec) @@ "NO3" :> NumberCell(no3)

TextRow(id, ec, no3) ==
    "ID" :> StringCell(id) @@ "Conductivity" :> StringCell(ec) @@ "Nitrate" :> StringCell(no3)

FileName(base, ext) == [base |-> base, ext |-> ext]

\* The files that can be uploaded.
\* Three stations on a line.
File2021 ==
    [name |-> FileName("2021", "xlsx"),
     rows |-> <<NumberRow("S1", "1", "1"), NumberRow("S2", "2", "2"),
                NumberRow("S3", "3", "3")>>]

\* S1 and S3 as in 2021, S2 missing; one row without a conductivity.
File2022 ==
    [name |-> FileName("2022", "xlsx"),
     rows |-> <<TextRow(" S1 ", "1", "1"), NumberRow("S2", "n/a", "2"),
                NumberRow("S3", "3", "3")>>]

\* Three rows of the same station, all values below zero.
File2020 ==
    [name |-> FileName("2020", "csv"),
     rows |-> <<TextRow("S1", "-1", "-1"), TextRow("S1", "-3", "-3"),
                TextRow("S1", "-1", "-1")>>]

\* Conductivity and nitrate both of mean zero.
File2023 ==
    [name |-> FileName("2023", "xlsx"),
     rows |-> <<NumberRow("S1", "2", "-2"), NumberRow("S2", "-2", "2")>>]

\* Conductivity of mean zero; the date of File2022.
File2022csv ==
    [name |-> FileName("2022", "csv"),
     rows |-> <<TextRow("S1", "2 mS", "1"), TextRow("S2", "-2", "1")>>]

\* No row with two numbers: a conductivity cell holding the number 0 reads as
\* missing.
FileNoRows ==
    [name |-> FileName("2021", "xls"),
     rows |-> <<NumberRow("S9", "0", "1"), TextRow("S9", "n/a", "2")>>]

Files == {File2021, File2022, File2020, File2023, File2022csv, FileNoRows}

\* event.target.files: one file, or two files of one selection.
Batches == {<<f>> : f \in Files} \cup {b \in Files \X Files : b[1] # b[2]}

\* Mutant: a file without samples gives a period too.
RECURSIVE NewTimePoints_KeepsEmptyPeriods(_, _, _)
NewTimePoints_KeepsEmptyPeriods(files, i, newTimePoints) ==
    IF i >= Len(files) THEN newTimePoints
    ELSE LET file == At(files, i)
             rawSamples == RawSamples(file.rows, file.name, 0, <<>>)
         IN  NewTimePoints_KeepsEmptyPeriods(files, i + 1,
                           Append(newTimePoints,
                                  [date |-> DateOf(file.name), samples |-> rawSamples]))

\* The loop over the files, from file i on: a period per file with samples.
RECURSIVE NewTimePoints(_, _, _)
NewTimePoints(files, i, newTimePoints) ==
    IF i >= Len(files) THEN newTimePoints
    ELSE LET file == At(files, i)
             rawSamples == RawSamples(file.rows, file.name, 0, <<>>)
         IN  NewTimePoints(files, i + 1,
                           IF Len(rawSamples) > 0
                           THEN Append(newTimePoints,
                                       [date |-> DateOf(file.name), samples |-> rawSamples])
                           ELSE newTimePoints)

\* Array.prototype.sort with (a, b) => a.date.localeCompare(b.date): stable.
RECURSIVE InsertPeriod(_, _)
InsertPeriod(sorted, tp) ==
    IF Len(sorted) = 0 THEN <<tp>>
    ELSE IF localeCompare(sorted[Len(sorted)].date, tp.date) > 0
         THEN Append(InsertPeriod(SubSeq(sorted, 1, Len(sorted) - 1), tp),
                     sorted[Len(sorted)])
         ELSE Append(sorted, tp)

RECURSIVE SortPeriods(_, _, _)
SortPeriods(periods, i, sorted) ==
    IF i >= Len(periods) THEN sorted
    ELSE SortPeriods(periods, i + 1, InsertPeriod(sorted, At(periods, i)))

\* setTimePoints(prev => [...prev, ...newTimePoints]) after the sort of the batch.
AppendBatch(prev, newTimePoints) == prev \o SortPeriods(newTimePoints, 0, <<>>)

\* handleFileUpload, the value of timePoints it leaves.
TimePointsAfterUpload(prev, files) ==
    LET newTimePoints == NewTimePoints(files, 0, <<>>)
    IN  IF Len(newTimePoints) > 0 THEN AppendBatch(prev, newTimePoints) ELSE prev

\* Mutant: the periods are processed with the palette of the previous render.
ProcessTimePoints_StalePalette(tps, count, algo) ==
    [i \in 1..Len(tps) |->
        [date |-> tps[i].date,
         samples |-> ClusterRunWith(currentClusterLabels(clusterCount),
                                    tps[i].samples, count, algo).out]]

\* processedTimePoints for the state (tps, count, algo): every period with its
\* samples clustered by the clusterDataPerPeriod of that render.
ProcessTimePoints(tps, count, algo) ==
    [i \in 1..Len(tps) |->
        [date |-> tps[i].date,
         samples |-> ClusterRunWith(currentClusterLabels(count),
                                    tps[i].samples, count, algo).out]]

(***************************************************************************)
(* volatilityRanking.  pointHistories is kept as the list of its entries   *)
(* in insertion order, which is the order of Object.entries for station    *)
(* names that are not integers.  Each history element also records the     *)
(* index of the period its sample came from; the code does not keep it.    *)
(***************************************************************************)
\* The samples in the order the two nested forEach visit them, from period p on.
RECURSIVE VisitSamples(_, _, _)
VisitSamples(processed, p, visited) ==
    IF p >= Len(processed) THEN visited
    ELSE VisitSamples(processed, p + 1,
             visited \o [i \in 1..Len(At(processed, p).samples) |->
                            [id |-> At(processed, p).samples[i].id,
                             ec |-> At(processed, p).samples[i].conductivity,
                             no3 |-> At(processed, p).samples[i].nitrate,
                             cluster |-> At(processed, p).samples[i].cluster,
                             period |-> p]])

\* The keys of pointHistories in insertion order.
RECURSIVE HistoryIds(_, _, _)
HistoryIds(visited, i, ids) ==
    IF i >= Len(visited) THEN ids
    ELSE HistoryIds(visited, i + 1,
                    IF \E k \in 1..Len(ids) : ids[k] = At(visited, i).id
                    THEN ids ELSE Append(ids, At(visited, i).id))

\* pointHistories[id]
RECURSIVE HistoryOf(_, _, _, _)
HistoryOf(visited, id, i, history) ==
    IF i >= Len(visited) THEN history
    ELSE HistoryOf(visited, id, i + 1,
                   IF At(visited, i).id = id
                   THEN Append(history, [ec |-> At(visited, i).ec,
                                         no3 |-> At(visited, i).no3,
                                         cluster |-> At(visited, i).cluster,
                                         period |-> At(visited, i).period])
                   ELSE history)

\* Mutant: the mean is the divisor whatever it is.
OrOne_NoGuard(mean) == mean

\* mean || 1: 0 and NaN are falsy.
OrOne(mean) == IF mean = Zero \/ IsNaN(mean) THEN One ELSE mean

\* Mutant: the two normalised deltas are added.
StepChange_SumOfDeltas(history, i, meanEC, meanNO3) ==
    LET dEC  == Div(MathAbs(Sub(At(history, i).ec, At(history, i - 1).ec)), OrOne(meanEC))
        dNO3 == Div(MathAbs(Sub(At(history, i).no3, At(history, i - 1).no3)), OrOne(meanNO3))
    IN  RootSumOf(Add(dEC, dNO3))

\* Math.sqrt(dEC * dEC + dNO3 * dNO3) of the step from history[i - 1] to history[i].
StepChange(history, i, meanEC, meanNO3) ==
    LET dEC  == Div(MathAbs(Sub(At(history, i).ec, At(history, i - 1).ec)), OrOne(meanEC))
        dNO3 == Div(MathAbs(Sub(At(history, i).no3, At(history, i - 1).no3)), OrOne(meanNO3))
    IN  RootSumOfSurd(MathSqrt(Add(Mul(dEC, dEC), Mul(dNO3, dNO3))))

\* for (let i = 1; i < history.length; i++).  total is bound to the value of
\* totalChange after the step, so that TLC computes it once.
RECURSIVE HistoryLoop(_, _, _, _, _, _)
HistoryLoop(history, i, meanEC, meanNO3, totalChange, clusterJumps) ==
    IF i >= Len(history) THEN [totalChange |-> totalChange, clusterJumps |-> clusterJumps]
    ELSE CHOOSE result \in
            { HistoryLoop(history, i + 1, meanEC, meanNO3, total,
                          IF At(history, i).cluster # At(history, i - 1).cluster
                          THEN clusterJumps + 1 ELSE clusterJumps)
              : total \in {RootSumAdd(totalChange,
                                      StepChange(history, i, meanEC, meanNO3))} } : TRUE

\* The callback of Object.entries(pointHistories).map: 0.2 is the fraction 1/5.
Ranking(id, history, meanEC, meanNO3) ==
    LET loop == HistoryLoop(history, 1, meanEC, meanNO3, RootSumOf(Zero), 0)
        avgChange == IF Len(history) > 1
                     THEN RootSumScale(Recip(Num(Len(history) - 1)), loop.totalChange)
                     ELSE RootSumOf(Zero)
        finalScore == RootSumAdd(avgChange, RootSumOf(Mul(Num(loop.clusterJumps), <<1, 5>>)))
    IN  [id |-> id, score |-> finalScore, jumps |-> loop.clusterJumps]

\* (a, b) => b.score - a.score, by its sign; a NaN counts as 0 in sort.
CompareScores(a, b) ==
    LET diff == RootSumSub(b.score, a.score)
    IN  IF IsNaN(diff.a) THEN 0
        ELSE IF ~IsFinite(diff.a) THEN diff.a[1]
        ELSE RootSumSign(diff)

\* Array.prototype.sort with that comparator: stable.
RECURSIVE InsertRanking(_, _)
InsertRanking(sorted, x) ==
    IF Len(sorted) = 0 THEN <<x>>
    ELSE IF CompareScores(sorted[Len(sorted)], x) > 0
         THEN Append(InsertRanking(SubSeq(sorted, 1, Len(sorted) - 1), x),
                     sorted[Len(sorted)])
         ELSE Append(sorted, x)

RECURSIVE SortRankings(_, _, _)
SortRankings(rankings, i, sorted) ==
    IF i >= Len(rankings) THEN sorted
    ELSE SortRankings(rankings, i + 1, InsertRanking(sorted, At(rankings, i)))

\* volatilityRanking with its local: histories is pointHistories when it
\* returned (Object.entries order), out the value returned.
VolatilityRun(processed) ==
    IF Len(processed) < 2 THEN [out |-> <<>>, histories |-> <<>>]
    ELSE LET visited == VisitSamples(processed, 0, <<>>)
             ids     == HistoryIds(visited, 0, <<>>)
             meanEC  == Div(ReduceSum([i \in 1..Len(visited) |-> visited[i].ec], 0, Zero),
                            Num(Len(visited)))
             meanNO3 == Div(ReduceSum([i \in 1..Len(visited) |-> visited[i].no3], 0, Zero),
                            Num(Len(visited)))
             histories == [k \in 1..Len(ids) |->
                              [id |-> ids[k],
                               history |-> HistoryOf(visited, ids[k], 0, <<>>)]]
             rankings == [k \in 1..Len(ids) |->
                             Ranking(ids[k], histories[k].history, meanEC, meanNO3)]
         IN  [out |-> SortRankings(rankings, 0, <<>>), histories |-> histories]

\* The variables of the specifications of single functions.
unitVars == <<data, dates, lambda, samples, called, ret, locals, first>>

AppInit ==
    /\ data = <<>>
    /\ dates = <<>>
    /\ lambda = Undefined
    /\ samples = <<>>
    /\ called = "none"
    /\ ret = Undefined
    /\ locals = Undefined
    /\ first = Undefined
    /\ clusterCount = 5
    /\ clusteringAlgo = "simple"
    /\ NoApp

\* The render after a state change: the memo of the new state.
Render(tps, count, algo) ==
    \E processed \in {ProcessTimePoints(tps, count, algo)} :
        /\ processedTimePoints' = processed
        /\ \E run \in {VolatilityRun(processed)} :
              /\ volatilityRanking' = run.out
              /\ pointHistories' = run.histories

\* handleFileUpload: isUploading is true while it runs and false when it ends.
HandleFileUpload ==
    \E files \in Batches :
        /\ Len(timePoints) + Len(files) <= MaxPeriods
        /\ \E tps \in {TimePointsAfterUpload(timePoints, files)} :
              /\ timePoints' = tps
              /\ Render(tps, clusterCount, clusteringAlgo)
        /\ isUploading' = FALSE
        /\ UNCHANGED <<clusterCount, clusteringAlgo, unitVars, analysisVars, uploadCall>>

\* onChange of the range input: setClusterCount(parseInt(e.target.value)).
SetClusterCount ==
    \E count \in MinClusterCount..MaxClusterCount :
        /\ clusterCount' = count
        /\ Render(timePoints, count, clusteringAlgo)
        /\ UNCHANGED <<timePoints, isUploading, clusteringAlgo, unitVars, analysisVars, uploadCall>>

\* onClick of the two algorithm buttons.
SetClusteringAlgo ==
    \E algo \in {"simple", "kmeans"} :
        /\ clusteringAlgo' = algo
        /\ Render(timePoints, clusterCount, algo)
        /\ UNCHANGED <<timePoints, isUploading, clusterCount, unitVars, analysisVars, uploadCall>>

AppNext ==
    \/ HandleFileUpload
    \/ SetClusterCount
    \/ SetClusteringAlgo

SpecApp == AppInit /\ [][AppNext]_vars

\* The labels of a palette.
Palette == {currentClusterLabels(clusterCount)[i] : i \in 1..Len(currentClusterLabels(clusterCount))}

\* C12: in every state reached by uploads, cluster-count changes and algorithm
\* changes the palette has clusterCount labels and every sample of every
\* processed period carries one of them.
C12_LabelsInCurrentPalette ==
    /\ Len(currentClusterLabels(clusterCount)) = clusterCount
    /\ Cardinality(Palette) = clusterCount
    /\ Len(processedTimePoints) = Len(timePoints)
    /\ \A p \in 1..Len(processedTimePoints) :
          /\ Len(processedTimePoints[p].samples) = Len(timePoints[p].samples)
          /\ \A i \in 1..Len(processedTimePoints[p].samples) :
                processedTimePoints[p].samples[i].cluster \in Palette

\* Periods processed under a palette other than the default one, with more
\* than one label in use.
C12_Witness ==
    /\ clusterCount = 3
    /\ Len(processedTimePoints) >= 2
    /\ \E p, q \in 1..Len(processedTimePoints) :
          \E i \in 1..Len(processedTimePoints[p].samples) :
             \E j \in 1..Len(processedTimePoints[q].samples) :
                processedTimePoints[p].samples[i].cluster
                    # processedTimePoints[q].samples[j].cluster

(***************************************************************************)
(* Properties of the volatility ranking.                                   *)
(***************************************************************************)
\* All stored samples, and the mean of a field over them.
AllSamples == VisitSamples(processedTimePoints, 0, <<>>)

GlobalMean(field) ==
    LET total == CHOOSE t \in {ReduceSum([i \in 1..Len(AllSamples) |-> AllSamples[i][field]],
                                         0, Zero)} : TRUE
    IN  Div(total, Num(Len(AllSamples)))

\* The ranking entry of the station of pointHistories[k].
RankingOfStation(k) ==
    CHOOSE x \in {volatilityRanking[j] : j \in 1..Len(volatilityRanking)} :
        x.id = pointHistories[k].id

\* The station's values and label are the same in all its history entries.
ConstantHistory(history) ==
    \A i \in 1..Len(history) :
        /\ history[i].ec = history[1].ec
        /\ history[i].no3 = history[1].no3
        /\ history[i].cluster = history[1].cluster

\* C14: every volatility score is >= 0, also for negative values and a
\* negative global mean, and it is 0 for a station with the same conductivity,
\* nitrate and label in all its trajectory entries.
C14_ScoresNonNegative ==
    /\ Len(volatilityRanking) = Len(pointHistories)
    /\ \A k \in 1..Len(pointHistories) :
          /\ IsFinite(RankingOfStation(k).score.a) =>
                RootSumSign(RankingOfStation(k).score) >= 0
          /\ ~IsNaN(RankingOfStation(k).score.a)
          /\ RankingOfStation(k).score.a # Neg(Infinity)
          /\ ConstantHistory(pointHistories[k].history) =>
                RankingOfStation(k).score = RootSumOf(Zero)

\* Periods whose global mean conductivity is below zero, with a station that
\* moved and a score that is not a fraction.
C14_Witness ==
    /\ Len(processedTimePoints) >= 2
    /\ Lt(GlobalMean("ec"), Zero)
    /\ \E k \in 1..Len(volatilityRanking) :
          /\ DOMAIN volatilityRanking[k].score.roots # {}
          /\ RootSumSign(volatilityRanking[k].score) > 0

\* C15: after any sequence of upload batches the stored periods are in
\* non-decreasing order of date, in the comparison used at ingestion.
C15_PeriodsOrdered ==
    \A i \in 1..Len(timePoints), j \in 1..Len(timePoints) :
        i < j => localeCompare(timePoints[i].date, timePoints[j].date) <= 0

\* C16: every step counted for a station goes from its sample in one period to
\* its sample in the next period, so that its label changes number at most
\* (number of periods - 1), also for a station missing from a period or
\* appearing more than once in one.
C16_StepsBetweenConsecutivePeriods ==
    \A k \in 1..Len(pointHistories) :
        /\ \A i \in 2..Len(pointHistories[k].history) :
              pointHistories[k].history[i].period
                  = pointHistories[k].history[i - 1].period + 1
        /\ RankingOfStation(k).jumps <= Len(processedTimePoints) - 1

\* The divisor of the deltas of a field: 1 when its global mean is zero.
Divisor(field) == IF GlobalMean(field) = Zero THEN One ELSE GlobalMean(field)

\* The score of a history with its deltas over the divisors, from entry i on.
RECURSIVE ChangeFrom(_, _, _, _)
ChangeFrom(history, i, divEC, divNO3) ==
    IF i > Len(history) THEN RootSumOf(Zero)
    ELSE LET dEC  == Div(Sub(history[i].ec, history[i - 1].ec), divEC)
             dNO3 == Div(Sub(history[i].no3, history[i - 1].no3), divNO3)
             rest == CHOOSE x \in {ChangeFrom(history, i + 1, divEC, divNO3)} : TRUE
         IN  RootSumAdd(RootSumOfSurd(MathSqrt(Add(Mul(dEC, dEC), Mul(dNO3, dNO3)))), rest)

LabelChanges(history) ==
    Cardinality({i \in 2..Len(history) : history[i].cluster # history[i - 1].cluster})

\* C17: no volatility score is NaN or infinite; the deltas of a field whose
\* global mean is zero are divided by 1.
C17_ScoresFinite ==
    \A divEC \in {Divisor("ec")} : \A divNO3 \in {Divisor("no3")} :
        \A k \in 1..Len(pointHistories) :
            \A ranking \in {RankingOfStation(k)} :
                LET history == pointHistories[k].history
                IN  /\ IsFinite(ranking.score.a)
                    /\ ranking.score =
                          RootSumAdd(IF Len(history) > 1
                                     THEN RootSumScale(Recip(Num(Len(history) - 1)),
                                                       ChangeFrom(history, 2, divEC, divNO3))
                                     ELSE RootSumOf(Zero),
                                     RootSumOf(Rat(LabelChanges(history), 5)))

\* Periods whose conductivity has global mean zero while nitrate has not, with
\* a station that moved.
C17_Witness ==
    /\ Len(processedTimePoints) >= 2
    /\ GlobalMean("ec") = Zero
    /\ GlobalMean("no3") # Zero
    /\ \E k \in 1..Len(volatilityRanking) : RootSumSign(volatilityRanking[k].score) > 0

(***************************************************************************)
(* geminiService: analyzeWaterData, and runAnalysis of App.tsx which calls *)
(* it.  A JavaScript value that the call handles is a record with a type:  *)
(* null, a string, an array, undefined, or an object read through the      *)
(* three properties of AnalysisResult (a property the object lacks reads   *)
(* as undefined).                                                          *)
(***************************************************************************)
MaxAnalysisPeriods == 1

JsNull == [type |-> "null"]
JsUndefined == [type |-> "undefined"]
JsString(text) == [type |-> "string", text |-> text]
JsArray(items) == [type |-> "array", items |-> items]
JsObject(summary, anomalies, recommendations) ==
    [type |-> "object", summary |-> summary, anomalies |-> anomalies,
     recommendations |-> recommendations]

\* The result returned by the catch block.
Fallback ==
    JsObject(JsString("fallback summary"), JsArray(<<>>),
             JsArray(<<JsString("fallback recommendation")>>))

\* JSON.parse on the response texts of the model: the value, or a SyntaxError.
Returned(value) == [threw |-> FALSE, value |-> value]
Threw == [threw |-> TRUE]

JSONParseText ==
    ("{\"summary\":\"s\",\"anomalies\":[\"a\"],\"recommendations\":[\"r\"]}" :>
        Returned(JsObject(JsString("s"), JsArray(<<JsString("a")>>),
                          JsArray(<<JsString("r")>>))))
    @@ ("{\"summary\":\"s\",\"anomalies\":[],\"recommendations\":[]}" :>
        Returned(JsObject(JsString("s"), JsArray(<<>>), JsArray(<<>>))))
    @@ ("{\"summary\":\"s\"}" :>
        Returned(JsObject(JsString("s"), JsUndefined, JsUndefined)))
    @@ ("{}" :> Returned(JsObject(JsUndefined, JsUndefined, JsUndefined)))
    @@ ("null" :> Returned(JsNull))
    @@ ("{\"summary\":" :> Threw)
    @@ ("no data" :> Threw)

JSONParse(text) == JSONParseText[text]

\* response.text: a text of the table, the empty string, or undefined.
ResponseTexts ==
    {JsString(t) : t \in DOMAIN JSONParseText} \cup {JsString(""), JsUndefined}

\* response.text || '{}'
TextOrEmptyObject(text) ==
    IF text.type = "undefined" THEN "{}"
    ELSE IF text.text = "" THEN "{}"
    ELSE text.text

\* The data of the prompt: date, count and the two averages of every period.
PromptData(tps) ==
    [p \in 1..Len(tps) |->
        LET smps == tps[p].samples
            n    == Len(smps)
        IN  [date  |-> tps[p].date,
             count |-> n,
             averages |->
                [ec      |-> Div(ReduceSum([i \in 1..n |-> smps[i].conductivity], 0, Zero),
                                 Num(n)),
                 nitrate |-> Div(ReduceSum([i \in 1..n |-> smps[i].nitrate], 0, Zero),
                                 Num(n))]]]

\* The outcomes of the collaborator.  The constructor returns a client or
\* throws; generateContent resolves with a response or rejects.
ConstructorOutcomes == {"client", "throws"}
GenerateContentOutcomes ==
    {[settled |-> "resolved", text |-> t] : t \in ResponseTexts}
        \cup {[settled |-> "rejected"]}

\* The body of the try statement once generateContent has settled, and the
\* catch block: how the promise of analyzeWaterData settles.
AnalyzeSettles(outcome) ==
    IF outcome.settled = "rejected" THEN [settled |-> "resolved", value |-> Fallback]
    ELSE LET parsed == JSONParse(TextOrEmptyObject(outcome.text))
         IN  IF parsed.threw THEN [settled |-> "resolved", value |-> Fallback]
             ELSE [settled |-> "resolved", value |-> parsed.value]

\* runAnalysis up to its await, started by the button that is disabled while
\* isAnalyzing: the guard, setIsAnalyzing(true), and
\* analyzeWaterData up to its own await.  The constructor runs before the try
\* statement: when it throws, the promise of analyzeWaterData is rejected.
RunAnalysis ==
    /\ ~isAnalyzing
    /\ Len(processedTimePoints) # 0
    /\ isAnalyzing' = TRUE
    /\ \E constructed \in ConstructorOutcomes :
          analyzeCall' =
              IF constructed = "throws"
              THEN [pc |-> "settled", settled |-> "rejected"]
              ELSE [pc |-> "generateContent", prompt |-> PromptData(processedTimePoints)]
    /\ UNCHANGED <<analysis, clusterCount, clusteringAlgo, unitVars, timePoints,
                   isUploading, processedTimePoints, volatilityRanking, pointHistories,
                   uploadCall>>

\* generateContent settles and analyzeWaterData runs to its return.
GenerateContentSettles ==
    /\ analyzeCall.pc = "generateContent"
    /\ \E outcome \in GenerateContentOutcomes :
          \E result \in {AnalyzeSettles(outcome)} :
             analyzeCall' = [pc |-> "settled", settled |-> result.settled,
                             value |-> result.value]
    /\ UNCHANGED <<analysis, isAnalyzing, clusterCount, clusteringAlgo, unitVars,
                   timePoints, isUploading, processedTimePoints, volatilityRanking,
                   pointHistories, uploadCall>>

\* runAnalysis after its await: setAnalysis(result) and setIsAnalyzing(false)
\* when the promise was resolved; a rejection ends runAnalysis at the await.
RunAnalysisResumes ==
    /\ analyzeCall.pc = "settled"
    /\ IF analyzeCall.settled = "resolved"
       THEN /\ analysis' = analyzeCall.value
            /\ isAnalyzing' = FALSE
            /\ analyzeCall' = [pc |-> "idle"]
       ELSE /\ analyzeCall' = [pc |-> "failed"]
            /\ UNCHANGED <<analysis, isAnalyzing>>
    /\ UNCHANGED <<clusterCount, clusteringAlgo, unitVars, timePoints, isUploading,
                   processedTimePoints, volatilityRanking, pointHistories, uploadCall>>

\* handleFileUpload while at most MaxAnalysisPeriods periods are held.
UploadForAnalysis ==
    /\ Len(timePoints) < MaxAnalysisPeriods
    /\ HandleFileUpload

AnalysisNext ==
    \/ UploadForAnalysis
    \/ RunAnalysis
    \/ GenerateContentSettles
    \/ RunAnalysisResumes

SpecAnalysis == AppInit /\ [][AnalysisNext]_vars

\* A result with a text summary and two lists.
IsAnalysisResult(value) ==
    /\ value.type = "object"
    /\ value.summary.type = "string"
    /\ value.anomalies.type = "array"
    /\ value.recommendations.type = "array"

\* C18: every call of analyzeWaterData settles by resolving, never by
\* rejecting, and the value it resolves with has a text summary, a list of
\* anomalies and a list of recommendations.
C18_AlwaysAStructuredResult ==
    analyzeCall.pc = "settled" =>
        /\ analyzeCall.settled = "resolved"
        /\ IsAnalysisResult(analyzeCall.value)

\* The event loop runs every continuation that is ready: a settled
\* generateContent resumes analyzeWaterData, a settled analyzeWaterData
\* resumes runAnalysis, and the collaborator's request does settle.
SpecAnalysisFair ==
    /\ SpecAnalysis
    /\ WF_vars(GenerateContentSettles)
    /\ WF_vars(RunAnalysisResumes)

\* C21: whenever isAnalyzing is true it becomes false again, with an analysis
\* result stored, whether the summarization call succeeds or fails.
C21_AnalyzingEnds ==
    isAnalyzing ~> (~isAnalyzing /\ analysis.type = "object")

\* A run of runAnalysis that ended at its await: the flag is still set and no
\* continuation is left to reset it.
C21_Witness ==
    /\ analyzeCall.pc = "failed"
    /\ isAnalyzing
    /\ ~ENABLED RunAnalysis

(***************************************************************************)
(* periodStats of App.tsx: the per-period averages shown in the charts.    *)
(***************************************************************************)
\* Math.floor of a finite fraction.
MathFloor(q) == IF IsFinite(q) THEN Num(q[1] \div q[2]) ELSE q

\* Math.round: the nearest integer, a half going up.
MathRound(q) == MathFloor(Add(q, Rat(1, 2)))

\* parseFloat(x.toFixed(2)): the nearest multiple of 1/100, a half going up;
\* NaN and the infinities give themselves.
ToFixed2(q) == IF IsFinite(q) THEN Div(MathFloor(Add(Mul(q, Num(100)), Rat(1, 2))), Num(100))
               ELSE q

\* tp.samples.reduce((sum, s) => sum + s[field], 0) / tp.samples.length
PeriodAverage(tp, field) ==
    Div(ReduceSum([i \in 1..Len(tp.samples) |-> tp.samples[i][field]], 0, Zero),
        Num(Len(tp.samples)))

periodStats(processed) ==
    [p \in 1..Len(processed) |->
        [date   |-> processed[p].date,
         avgEC  |-> MathRound(PeriodAverage(processed[p], "conductivity")),
         avgNO3 |-> ToFixed2(PeriodAverage(processed[p], "nitrate"))]]

\* C22: after any sequence of uploads every stored period has a sample, a file
\* without a row that parses to two numbers has added no period, and the
\* averages of every period, in the charts and in the summarization request,
\* are numbers: no division by a sample count of zero.
C22_PeriodsHaveSamples ==
    /\ \A p \in 1..Len(timePoints) :
          /\ Len(timePoints[p].samples) >= 1
          /\ timePoints[p].samples[1].timestamp # FileNoRows.name
    /\ \A p \in 1..Len(processedTimePoints) :
          /\ Len(processedTimePoints[p].samples) >= 1
          /\ IsFinite(periodStats(processedTimePoints)[p].avgEC)
          /\ IsFinite(periodStats(processedTimePoints)[p].avgNO3)
          /\ IsFinite(PromptData(processedTimePoints)[p].averages.ec)
          /\ IsFinite(PromptData(processedTimePoints)[p].averages.nitrate)

\* Two stored periods, one of them from the file with a row that did not
\* parse: it holds the other rows of the file.
C22_Witness ==
    /\ Len(timePoints) = 2
    /\ \E p \in 1..Len(timePoints) :
          /\ timePoints[p].samples[1].timestamp = File2022.name
          /\ Len(timePoints[p].samples) = Len(File2022.rows) - 1
          /\ periodStats(processedTimePoints)[p].avgEC = Num(2)

(***************************************************************************)
(* handleFileUpload, step by step.  The function runs up to its first      *)
(* await; each later step starts when file.arrayBuffer() of the file in    *)
(* turn settles and runs to the next await or to the end of the function.  *)
(* One call is in progress at a time.  uploadCall keeps, for the           *)
(* properties, the timePoints the call started from and how it ended.      *)
(***************************************************************************)
\* What reading and decoding one file can do: arrayBuffer() rejects, XLSX.read
\* throws, or the rows of the file are read.
DecodeOutcomes == {"rows", "arrayBuffer rejects", "XLSX.read throws"}

\* event.target.files: a batch of files, or no file.
Selections == Batches \cup {<<>>}

\* The end of the try block: the sort and setTimePoints when the batch has
\* periods.
TimePointsAfterLoop(prev, newTimePoints) ==
    IF Len(newTimePoints) > 0 THEN AppendBatch(prev, newTimePoints) ELSE prev

\* Mutant: the catch block stores the periods decoded before the failure.
TimePointsAfterCatch_KeepsDecoded(prev, newTimePoints) ==
    IF Len(newTimePoints) > 0 THEN AppendBatch(prev, newTimePoints) ELSE prev

\* The catch block: console.error(err), and timePoints is not set.
TimePointsAfterCatch(prev, newTimePoints) == prev

\* The finally block, and the render of the state it leaves.
FinallyUpload(tps, outcome, decoded) ==
    /\ isUploading' = FALSE
    /\ timePoints' = tps
    /\ Render(tps, clusterCount, clusteringAlgo)
    /\ uploadCall' = [pc |-> "idle", outcome |-> outcome, before |-> uploadCall.before,
                      files |-> uploadCall.files, decoded |-> decoded]

\* The change event of the file input: the guard, setIsUploading(true) and the
\* loop up to await file.arrayBuffer() of the first file.
StartUpload ==
    /\ uploadCall.pc = "idle"
    /\ \E files \in Selections :
          /\ Len(timePoints) + Len(files) <= MaxPeriods
          /\ IF Len(files) = 0
             THEN /\ uploadCall' = [pc |-> "idle", outcome |-> "no files"]
                  /\ UNCHANGED isUploading
             ELSE /\ isUploading' = TRUE
                  /\ uploadCall' = [pc |-> "arrayBuffer", files |-> files, i |-> 0,
                                    newTimePoints |-> <<>>, before |-> timePoints]
    /\ UNCHANGED <<clusterCount, clusteringAlgo, unitVars, analysisVars, timePoints,
                   processedTimePoints, volatilityRanking, pointHistories>>

\* arrayBuffer() of file i settles: the rest of the loop body, then the next
\* await, or the end of the loop and the finally block, or the catch block and
\* the finally block.
ArrayBufferSettles ==
    /\ uploadCall.pc = "arrayBuffer"
    /\ \E outcome \in DecodeOutcomes :
          IF outcome = "rows"
          THEN \E newTimePoints \in {NewTimePoints(<<At(uploadCall.files, uploadCall.i)>>, 0,
                                                   uploadCall.newTimePoints)} :
                  IF uploadCall.i + 1 < Len(uploadCall.files)
                  THEN /\ uploadCall' = [uploadCall EXCEPT !.i = uploadCall.i + 1,
                                                          !.newTimePoints = newTimePoints]
                       /\ UNCHANGED <<timePoints, isUploading, processedTimePoints,
                                      volatilityRanking, pointHistories>>
                  ELSE FinallyUpload(TimePointsAfterLoop(timePoints, newTimePoints),
                                     "done", Len(newTimePoints))
          ELSE FinallyUpload(TimePointsAfterCatch(timePoints, uploadCall.newTimePoints),
                             "failed", Len(uploadCall.newTimePoints))
    /\ UNCHANGED <<clusterCount, clusteringAlgo, unitVars, analysisVars>>

UploadNext ==
    \/ StartUpload
    \/ ArrayBufferSettles

SpecUpload == AppInit /\ [][UploadNext]_vars

\* C23: a batch in which a file fails to be read or decoded leaves the stored
\* periods as they were before the batch, whatever was decoded before the
\* failure; no period is stored while the batch is being read; and when the
\* call has ended, with or without a failure, isUploading is false.  A batch
\* without a failure stores what the whole batch gives.
C23_BatchAllOrNothing ==
    /\ uploadCall.pc = "arrayBuffer" =>
          /\ isUploading
          /\ timePoints = uploadCall.before
    /\ uploadCall.pc = "idle" => ~isUploading
    /\ (uploadCall.pc = "idle" /\ uploadCall.outcome = "failed") =>
          timePoints = uploadCall.before
    /\ (uploadCall.pc = "idle" /\ uploadCall.outcome = "done") =>
          timePoints = TimePointsAfterUpload(uploadCall.before, uploadCall.files)

\* A batch of two files whose second file failed after the first had given a
\* period: the period is not stored.
C23_Witness ==
    /\ uploadCall.pc = "idle"
    /\ uploadCall.outcome = "failed"
    /\ Len(uploadCall.files) = 2
    /\ uploadCall.decoded = 1
    /\ timePoints = uploadCall.before
    /\ ~isUploading

====
